---- MODULE Spec2Model ----
(***************************************************************************)
(* Model of pkg/enricher/main.go: the Enricher that fuses abuse contacts,  *)
(* network info, holder and geolocation of an IP address into one          *)
(* EnrichInfo record, with the whois fallback for abuse contacts.          *)
(*                                                                         *)
(* Go strings are modelled as sequences of byte values, so that            *)
(* strings.ToLower, strings.Join, sort.Strings and the whois regular       *)
(* expression are computed on bytes as the code computes them.             *)
(***************************************************************************)
EXTENDS Integers, Sequences, FiniteSets

VARIABLES
    pc,      \* position of the EnrichIP call in progress, "idle" when none is
    ipAddr,  \* the ipAddr parameter of the call in progress (or of the last one)
    e,       \* the Enricher's embedded types.EnrichInfo (e.EnrichInfo)
    calls,   \* collaborator calls made so far by the call in progress: fn, arg, err
    world,   \* what the collaborators held as answers during the step executed last
    handed,  \* TRUE once EnrichIP has returned &e.EnrichInfo to a caller
    out      \* result of the last direct whoisEnrichmentIP run

vars == <<pc, ipAddr, e, calls, world, handed, out>>

(***************************************************************************)
(* Bounds of the model.                                                    *)
(***************************************************************************)
MaxContacts == 2        \* longest GetAbuseContacts contact list
MaxASNs == 2            \* longest GetNetworkInfo ASN list
MaxResources == 2       \* longest GetGeolocationData located-resource list
MaxWords == 3           \* words of a whois text handed to the extraction alone
MaxFallbackWords == 2   \* words of a whois text in the EnrichIP fallback

(***************************************************************************)
(* Byte strings.                                                           *)
(***************************************************************************)
Range(q) == {q[i] : i \in DOMAIN q}

SeqsUpTo(S, n) == UNION {[1..k -> S] : k \in 0..n}

Empty == <<>>                                       \* ""
Unknown == <<117, 110, 107, 110, 111, 119, 110>>    \* "unknown"
RipeSTAT == <<114, 105, 112, 101, 83, 84, 65, 84>>  \* "ripeSTAT"
Whois == <<119, 104, 111, 105, 115>>                \* "whois"
Semicolon == <<59>>                                 \* ";"
Space == <<32>>                                     \* " "

\* strings.ToLower on ASCII bytes
ToLower(s) == [i \in 1..Len(s) |-> IF s[i] \in 65..90 THEN s[i] + 32 ELSE s[i]]

\* strings.Join
RECURSIVE Join(_, _)
Join(elems, sep) ==
    IF Len(elems) = 0 THEN Empty
    ELSE IF Len(elems) = 1 THEN elems[1]
    ELSE elems[1] \o sep \o Join(Tail(elems), sep)

\* a < b for Go strings: byte-wise lexicographic order
StringLess(a, b) ==
    \E k \in 1..(Len(b)) :
        /\ k <= Len(a) + 1
        /\ \A i \in 1..(k - 1) : a[i] = b[i]
        /\ (k = Len(a) + 1 \/ a[k] < b[k])

\* sort.Strings left out: the slice stays in the order it was filled
SortStringsNoSort(q) == q

InsertSorted(x, sorted) ==
    LET pos == Cardinality({i \in DOMAIN sorted : ~StringLess(x, sorted[i])})
    IN  SubSeq(sorted, 1, pos) \o <<x>> \o SubSeq(sorted, pos + 1, Len(sorted))

RECURSIVE SortedInsertAll(_)
SortedInsertAll(q) ==
    IF q = <<>> THEN <<>> ELSE InsertSorted(Head(q), SortedInsertAll(Tail(q)))

\* sort.Strings
SortStrings(q) == SortedInsertAll(q)

(***************************************************************************)
(* whoisRegexp and regexp.FindAllString(text, -1).                         *)
(***************************************************************************)
IsAlnum(c) == c \in (48..57) \cup (65..90) \cup (97..122)

\* [a-zA-Z0-9.!#$%&'*+/=?^_`{|}~-]
IsLocalChar(c) ==
    \/ IsAlnum(c)
    \/ c \in {46, 33, 35, 36, 37, 38, 39, 42, 43, 47, 61, 63, 94, 95, 96,
              123, 124, 125, 126, 45}

\* [a-zA-Z0-9-]
IsLabelChar(c) == IsAlnum(c) \/ c = 45

\* the {0,61} of a DNS label's interior
MaxLabelInterior == 61

\* last index of the run of local-part bytes starting at i (i - 1 if none)
LocalEnd(s, i) ==
    LET ends == {j \in (i - 1)..Len(s) : \A k \in i..j : IsLocalChar(s[k])}
    IN  CHOOSE j \in ends : \A j2 \in ends : j2 <= j

\* [a-zA-Z0-9](?:[a-zA-Z0-9-]{0,61}[a-zA-Z0-9])? from i, where s[i] is
\* alphanumeric: the greedy quantifiers take the longest label
LabelEnd(s, i) ==
    LET ends == {i} \cup
                {j \in (i + 1)..Len(s) :
                    /\ IsAlnum(s[j])
                    /\ j - 1 - i <= MaxLabelInterior
                    /\ \A k \in (i + 1)..(j - 1) : IsLabelChar(s[k])}
    IN  CHOOSE j \in ends : \A j2 \in ends : j2 <= j

\* label(?:\.label)* from i, where s[i] is alphanumeric
RECURSIVE DomainEnd(_, _)
DomainEnd(s, i) ==
    LET j == LabelEnd(s, i)
    IN  IF j + 2 <= Len(s) /\ s[j + 1] = 46 /\ IsAlnum(s[j + 2])
        THEN DomainEnd(s, j + 2)
        ELSE j

\* last index of the match of whoisRegexp starting at i, 0 if there is none
MatchEnd(s, i) ==
    LET j == LocalEnd(s, i)
    IN  IF j >= i /\ j + 2 <= Len(s) /\ s[j + 1] = 64 /\ IsAlnum(s[j + 2])
        THEN DomainEnd(s, j + 2)
        ELSE 0

RECURSIVE FindAllFrom(_, _)
FindAllFrom(s, i) ==
    IF i > Len(s) THEN <<>>
    ELSE LET k == MatchEnd(s, i)
         IN  IF k = 0 THEN FindAllFrom(s, i + 1)
             ELSE <<SubSeq(s, i, k)>> \o FindAllFrom(s, k + 1)

\* whoisRegexp.FindAllString(s, -1): the leftmost non-overlapping matches
FindAllString(s) == FindAllFrom(s, 1)

(***************************************************************************)
(* Inputs: the IP addresses asked for and what the collaborators answer.   *)
(* A failed call answers err = TRUE and the zero value.                    *)
(***************************************************************************)
IPs == {<<49>>, <<50>>}                              \* "1", "2"

ContactValues == {<<67, 64, 120>>, <<97, 64, 120>>}   \* "C@x", "a@x"

\* "a@x", "A@x", "b@x", "ab@x", "B@x." (an address and a full stop) and the
\* word "n", which is no address
Words == {<<97, 64, 120>>, <<65, 64, 120>>, <<98, 64, 120>>,
          <<97, 98, 64, 120>>, <<66, 64, 120, 46>>, <<110>>}

PrefixValues == {Empty, <<49, 47, 56>>}               \* "", "1/8"

ASNValues == {<<54, 52>>, <<55>>}                     \* "64", "7"

HolderValues == {<<72>>}                              \* "H"

LocationValues ==
    {[City |-> <<82>>, Country |-> <<78, 76>>],       \* "R", "NL"
     [City |-> <<65>>, Country |-> <<68, 69>>]}       \* "A", "DE"

LocationLists ==
    {<<>>} \cup {<<l>> : l \in LocationValues}
           \cup {q \in [1..2 -> LocationValues] : q[1] # q[2]}

ResourceValues == {[Locations |-> ll] : ll \in LocationLists}

WhoisTexts(n) == {Join(ws, Space) : ws \in SeqsUpTo(Words, n)}

AbuseResponses ==
    {[err |-> TRUE, val |-> <<>>]} \cup
    {[err |-> FALSE, val |-> c] : c \in SeqsUpTo(ContactValues, MaxContacts)}

WhoisResponses(n) ==
    {[err |-> TRUE, val |-> Empty]} \cup
    {[err |-> FALSE, val |-> t] : t \in WhoisTexts(n)}

NetResponses ==
    {[err |-> TRUE, val |-> [Prefix |-> Empty, ASNs |-> <<>>]]} \cup
    {[err |-> FALSE, val |-> [Prefix |-> p, ASNs |-> a]] :
        p \in PrefixValues, a \in SeqsUpTo(ASNValues, MaxASNs)}

ASResponses ==
    {[err |-> TRUE, val |-> [Holder |-> Empty]]} \cup
    {[err |-> FALSE, val |-> [Holder |-> h]] : h \in HolderValues}

GeoResponses ==
    {[err |-> TRUE, val |-> [LocatedResources |-> <<>>]]} \cup
    {[err |-> FALSE, val |-> [LocatedResources |-> r]] :
        r \in SeqsUpTo(ResourceValues, MaxResources)}

\* one collaborator call as the collaborator sees it
Call(fn, arg, resp) == [fn |-> fn, arg |-> arg, err |-> resp.err]

\* no step executed yet, or a step that asks no collaborator
NoAnswers == [none |-> TRUE]

(***************************************************************************)
(* types.EnrichInfo and NewEnricher.                                       *)
(***************************************************************************)
EnrichInfo(ip) ==
    [Ip |-> ip, Abuse |-> Empty, Abuse_source |-> Empty, Prefix |-> Empty,
     Asn |-> Empty, Holder |-> Empty, City |-> Empty, Country |-> Empty]

NewEnricher(ip) == EnrichInfo(ip)

(***************************************************************************)
(* whoisEnrichmentIP.  rw is what whois.Whois answers; order is the order  *)
(* in which `for k := range m` yields the keys of the map m.               *)
(***************************************************************************)
\* the map m: the lower-cased matches as keys
LowerSet(found) == {ToLower(found[i]) : i \in DOMAIN found}

\* the orders a range over a map with key set S can take
MapOrders(S) == {q \in [1..Cardinality(S) -> S] : Range(q) = S}

whoisEnrichmentIP(ip, rw, order) ==
    LET io == <<Call("Whois", ip, rw)>>
        foundMailAddresses == FindAllString(rw.val)
    IN  IF rw.err \/ rw.val = Empty THEN [ret |-> <<>>, io |-> io]
        ELSE IF Len(foundMailAddresses) = 0 THEN [ret |-> <<>>, io |-> io]
        ELSE IF Len(foundMailAddresses) = 1
        THEN [ret |-> <<ToLower(foundMailAddresses[1])>>, io |-> io]
        ELSE [ret |-> SortStrings(order), io |-> io]

whoisEnrichment(self, rw, order) == whoisEnrichmentIP(self.Ip, rw, order)

(***************************************************************************)
(* The four resolution steps of EnrichIP.  Each takes the answers the      *)
(* collaborators hold and gives the values it returns and the calls (io)   *)
(* it makes.                                                               *)
(***************************************************************************)
\* variant: whois is consulted before the contact list is looked at
enrichAbuseFromIPWhoisFirst(self, ip, ra, rw, order) ==
    LET io == <<Call("GetAbuseContacts", ip, ra)>>
        w == whoisEnrichment(self, rw, order)
    IN  IF ra.err
        THEN [abuse |-> Unknown, source |-> Empty, io |-> io]
        ELSE IF Len(ra.val) > 0
        THEN [abuse |-> Join(ra.val, Semicolon), source |-> RipeSTAT,
              io |-> io \o w.io]
        ELSE IF Len(w.ret) > 0
        THEN [abuse |-> Join(w.ret, Semicolon), source |-> Whois, io |-> io \o w.io]
        ELSE [abuse |-> Unknown, source |-> Empty, io |-> io \o w.io]

\* variant: the whois result is returned without the len(...) > 0 test
enrichAbuseFromIPNoLenTest(self, ip, ra, rw, order) ==
    LET io == <<Call("GetAbuseContacts", ip, ra)>>
        w == whoisEnrichment(self, rw, order)
    IN  IF ra.err
        THEN [abuse |-> Unknown, source |-> Empty, io |-> io]
        ELSE IF Len(ra.val) > 0
        THEN [abuse |-> Join(ra.val, Semicolon), source |-> RipeSTAT, io |-> io]
        ELSE [abuse |-> Join(w.ret, Semicolon), source |-> Whois, io |-> io \o w.io]

enrichAbuseFromIP(self, ip, ra, rw, order) ==
    LET io == <<Call("GetAbuseContacts", ip, ra)>>
        w == whoisEnrichment(self, rw, order)
    IN  IF ra.err
        THEN [abuse |-> Unknown, source |-> Empty, io |-> io]
        ELSE IF Len(ra.val) > 0
        THEN [abuse |-> Join(ra.val, Semicolon), source |-> RipeSTAT, io |-> io]
        ELSE IF Len(w.ret) > 0
        THEN [abuse |-> Join(w.ret, Semicolon), source |-> Whois, io |-> io \o w.io]
        ELSE [abuse |-> Unknown, source |-> Empty, io |-> io \o w.io]

\* variant: a failed GetNetworkInfo is tried a second time
enrichPrefixAndASNFromIPRetry(ip, rn) ==
    LET io == <<Call("GetNetworkInfo", ip, rn)>>
        netInfo == rn.val
    IN  IF rn.err
        THEN [prefix |-> Unknown, asn |-> Unknown, io |-> io \o io]
        ELSE IF Len(netInfo.ASNs) = 0
        THEN [prefix |-> netInfo.Prefix, asn |-> Unknown, io |-> io]
        ELSE [prefix |-> netInfo.Prefix, asn |-> netInfo.ASNs[1], io |-> io]

enrichPrefixAndASNFromIP(ip, rn) ==
    LET io == <<Call("GetNetworkInfo", ip, rn)>>
        netInfo == rn.val
    IN  IF rn.err
        THEN [prefix |-> Unknown, asn |-> Unknown, io |-> io]
        ELSE IF Len(netInfo.ASNs) = 0
        THEN [prefix |-> netInfo.Prefix, asn |-> Unknown, io |-> io]
        ELSE [prefix |-> netInfo.Prefix, asn |-> netInfo.ASNs[1], io |-> io]

\* variant: no short-circuit on asn == "unknown"
enrichHolderFromASNNoShortCircuit(asn, rh) ==
    LET io == <<Call("GetASOverview", asn, rh)>>
        asOverview == rh.val
    IN  IF rh.err THEN [holder |-> Unknown, io |-> io]
        ELSE [holder |-> asOverview.Holder, io |-> io]

enrichHolderFromASN(asn, rh) ==
    LET io == <<Call("GetASOverview", asn, rh)>>
        asOverview == rh.val
    IN  IF asn = Unknown THEN [holder |-> Unknown, io |-> <<>>]
        ELSE IF rh.err THEN [holder |-> Unknown, io |-> io]
        ELSE [holder |-> asOverview.Holder, io |-> io]

\* variant: the last location of the first located resource is taken
enrichCityAndCountryFromPrefixLastLocation(prefix, rg) ==
    LET io == <<Call("GetGeolocationData", prefix, rg)>>
        geolocation == rg.val
        locs == geolocation.LocatedResources[1].Locations
    IN  IF prefix = Unknown
        THEN [city |-> Unknown, country |-> Unknown, io |-> <<>>]
        ELSE IF rg.err
        THEN [city |-> Unknown, country |-> Unknown, io |-> io]
        ELSE IF Len(geolocation.LocatedResources) = 0
        THEN [city |-> Unknown, country |-> Unknown, io |-> io]
        ELSE IF Len(locs) = 0
        THEN [city |-> Unknown, country |-> Unknown, io |-> io]
        ELSE [city |-> locs[Len(locs)].City, country |-> locs[Len(locs)].Country,
              io |-> io]

enrichCityAndCountryFromPrefix(prefix, rg) ==
    LET io == <<Call("GetGeolocationData", prefix, rg)>>
        geolocation == rg.val
    IN  IF prefix = Unknown
        THEN [city |-> Unknown, country |-> Unknown, io |-> <<>>]
        ELSE IF rg.err
        THEN [city |-> Unknown, country |-> Unknown, io |-> io]
        ELSE IF Len(geolocation.LocatedResources) = 0
        THEN [city |-> Unknown, country |-> Unknown, io |-> io]
        ELSE IF Len(geolocation.LocatedResources[1].Locations) = 0
        THEN [city |-> Unknown, country |-> Unknown, io |-> io]
        ELSE [city |-> geolocation.LocatedResources[1].Locations[1].City,
              country |-> geolocation.LocatedResources[1].Locations[1].Country,
              io |-> io]

(***************************************************************************)
(* EnrichIP, statement by statement.                                       *)
(***************************************************************************)
\* entry of EnrichIP(ip): e.EnrichInfo = types.EnrichInfo{Ip: ipAddr}
EnrichIP(ip) ==
    /\ pc = "idle"
    /\ ipAddr' = ip
    /\ e' = EnrichInfo(ip)
    /\ pc' = "abuse"
    /\ calls' = <<>>
    /\ world' = NoAnswers
    /\ UNCHANGED <<handed, out>>

Enrich == EnrichIP(e.Ip)

AbuseStep ==
    /\ pc = "abuse"
    /\ \E ra \in AbuseResponses, rw \in WhoisResponses(MaxFallbackWords) :
        \E order \in MapOrders(LowerSet(FindAllString(rw.val))) :
            LET r == enrichAbuseFromIP(e, ipAddr, ra, rw, order)
            IN  /\ e' = [e EXCEPT !.Abuse = r.abuse, !.Abuse_source = r.source]
                /\ calls' = calls \o r.io
                /\ world' = [abuse |-> ra, whois |-> rw]
    /\ pc' = "net"
    /\ UNCHANGED <<ipAddr, handed, out>>

NetStep ==
    /\ pc = "net"
    /\ \E rn \in NetResponses :
        LET r == enrichPrefixAndASNFromIP(ipAddr, rn)
        IN  /\ e' = [e EXCEPT !.Prefix = r.prefix, !.Asn = r.asn]
            /\ calls' = calls \o r.io
            /\ world' = [net |-> rn]
    /\ pc' = "holder"
    /\ UNCHANGED <<ipAddr, handed, out>>

HolderStep ==
    /\ pc = "holder"
    /\ \E rh \in ASResponses :
        LET r == enrichHolderFromASN(e.Asn, rh)
        IN  /\ e' = [e EXCEPT !.Holder = r.holder]
            /\ calls' = calls \o r.io
            /\ world' = [as |-> rh]
    /\ pc' = "geo"
    /\ UNCHANGED <<ipAddr, handed, out>>

GeoStep ==
    /\ pc = "geo"
    /\ \E rg \in GeoResponses :
        LET r == enrichCityAndCountryFromPrefix(e.Prefix, rg)
        IN  /\ e' = [e EXCEPT !.City = r.city, !.Country = r.country]
            /\ calls' = calls \o r.io
            /\ world' = [geo |-> rg]
    /\ pc' = "ret"
    /\ UNCHANGED <<ipAddr, handed, out>>

\* return &e.EnrichInfo
Return ==
    /\ pc = "ret"
    /\ pc' = "idle"
    /\ handed' = TRUE
    /\ world' = NoAnswers
    /\ UNCHANGED <<ipAddr, e, calls, out>>

Init ==
    /\ pc = "idle"
    /\ ipAddr = Empty
    /\ e \in {NewEnricher(ip) : ip \in IPs}
    /\ calls = <<>>
    /\ world = NoAnswers
    /\ handed = FALSE
    /\ out = <<>>

Next ==
    \/ Enrich
    \/ \E ip \in IPs : EnrichIP(ip)
    \/ AbuseStep
    \/ NetStep
    \/ HolderStep
    \/ GeoStep
    \/ Return

Spec == Init /\ [][Next]_vars

(***************************************************************************)
(* whoisEnrichmentIP run on its own: once on any whois answer, then again  *)
(* any number of times while whois keeps giving the same answer.           *)
(***************************************************************************)
WhoisEnrichmentIP(ip) ==
    /\ pc = "extract"
    /\ ipAddr' = ip
    /\ \E rw \in WhoisResponses(MaxWords) :
        \E order \in MapOrders(LowerSet(FindAllString(rw.val))) :
            LET r == whoisEnrichmentIP(ip, rw, order)
            IN  /\ out' = r.ret
                /\ calls' = r.io
                /\ world' = [whois |-> rw]
    /\ pc' = "extracted"
    /\ UNCHANGED <<e, handed>>

WhoisEnrichmentAgain ==
    /\ pc = "extracted"
    /\ \E order \in MapOrders(LowerSet(FindAllString(world.whois.val))) :
        LET r == whoisEnrichmentIP(ipAddr, world.whois, order)
        IN  /\ out' = r.ret
            /\ calls' = r.io
    /\ UNCHANGED <<pc, ipAddr, e, world, handed>>

ExtractInit ==
    /\ pc = "extract"
    /\ ipAddr = Empty
    /\ e \in {NewEnricher(ip) : ip \in IPs}
    /\ calls = <<>>
    /\ world = NoAnswers
    /\ handed = FALSE
    /\ out = <<>>

ExtractNext ==
    \/ \E ip \in IPs : WhoisEnrichmentIP(ip)
    \/ WhoisEnrichmentAgain

ExtractSpec == ExtractInit /\ [][ExtractNext]_vars

(***************************************************************************)
(* Vocabulary of the properties.                                           *)
(***************************************************************************)
\* number of calls of collaborator fn made by the call in progress
CallCount(fn) == Cardinality({i \in DOMAIN calls : calls[i].fn = fn})

\* the strictly ascending sequence of the strings of S
AscendingSeq(S) ==
    CHOOSE q \in MapOrders(S) :
        \A i \in 1..(Len(q) - 1) : StringLess(q[i], q[i + 1])

\* the addresses a whois answer holds: lower-cased, each once, ascending
WhoisYield(rw) ==
    IF rw.err \/ rw.val = Empty THEN <<>>
    ELSE AscendingSeq(LowerSet(FindAllString(rw.val)))

\* the primary source gave no contacts: an error or an empty list
PrimaryGaveNone == world.abuse.err \/ Len(world.abuse.val) = 0

\* EnrichIP has returned and no new call has begun: e is the returned record
Returned == pc = "idle" /\ handed

\* a field of the record, once its step has set it, stays as set until the
\* call has returned; so does the number of whois calls
RecordKept ==
    /\ pc \in {"abuse", "net", "holder", "geo", "ret"} => e'.Ip = e.Ip
    /\ pc \in {"net", "holder", "geo", "ret"} =>
        /\ e'.Abuse = e.Abuse
        /\ e'.Abuse_source = e.Abuse_source
        /\ CallCount("Whois")' = CallCount("Whois")
    /\ pc \in {"holder", "geo", "ret"} =>
        /\ e'.Prefix = e.Prefix
        /\ e'.Asn = e.Asn
    /\ pc \in {"geo", "ret"} => e'.Holder = e.Holder
    /\ pc = "ret" => (e'.City = e.City /\ e'.Country = e.Country)

(***************************************************************************)
(* C1: whenever GetAbuseContacts gives an empty list or an error and the   *)
(* whois answer holds at least one address, the record has                 *)
(* abuseSource = "whois" and abuse = the sorted, deduplicated, lower-cased *)
(* addresses joined by ";".  Stated as claimed; the code returns           *)
(* ("unknown", "") on an error of GetAbuseContacts without asking whois.   *)
(***************************************************************************)
C1_WhoisFallbackOnEmptyOrError ==
    (pc = "net" /\ PrimaryGaveNone /\ WhoisYield(world.whois) # <<>>) =>
        /\ e.Abuse_source = Whois
        /\ e.Abuse = Join(WhoisYield(world.whois), Semicolon)

(***************************************************************************)
(* C2: whenever GetAbuseContacts succeeds with a non-empty list, the       *)
(* record has abuseSource = "ripeSTAT", abuse = the contacts joined by ";" *)
(* in source order, and whois is called zero times in that call; the       *)
(* record keeps these values until it is returned.                         *)
(***************************************************************************)
C2_AfterAbuse ==
    (pc = "net" /\ ~world.abuse.err /\ Len(world.abuse.val) > 0) =>
        /\ e.Abuse_source = RipeSTAT
        /\ e.Abuse = Join(world.abuse.val, Semicolon)
        /\ CallCount("Whois") = 0

C2_PrimaryContactsWin == []C2_AfterAbuse /\ [][RecordKept]_vars

C2_Witness ==
    /\ pc = "net"
    /\ ~world.abuse.err
    /\ Len(world.abuse.val) = 2
    /\ StringLess(world.abuse.val[2], world.abuse.val[1])
    /\ WhoisYield(world.whois) # <<>>
    /\ e.Abuse_source = RipeSTAT
    /\ CallCount("Whois") = 0

(***************************************************************************)
(* C3: whenever the primary source gives no contacts (empty list or error) *)
(* and the whois answer holds no address (error, empty text or no match),  *)
(* abuse = "unknown" and abuseSource = "".  In every record abuseSource is *)
(* one of "ripeSTAT", "whois", "", and it is "" only with abuse "unknown". *)
(***************************************************************************)
C3_AfterAbuse ==
    /\ (pc = "net" /\ PrimaryGaveNone /\ WhoisYield(world.whois) = <<>>) =>
        (e.Abuse = Unknown /\ e.Abuse_source = Empty)
    /\ (pc \in {"net", "holder", "geo", "ret"} \/ Returned) =>
        /\ e.Abuse_source \in {RipeSTAT, Whois, Empty}
        /\ e.Abuse_source = Empty => e.Abuse = Unknown

C3_NothingFoundIsUnknown == []C3_AfterAbuse /\ [][RecordKept]_vars

C3_Witness ==
    /\ pc = "net"
    /\ ~world.abuse.err
    /\ Len(world.abuse.val) = 0
    /\ ~world.whois.err
    /\ world.whois.val # Empty
    /\ FindAllString(world.whois.val) = <<>>
    /\ CallCount("Whois") = 1
    /\ e.Abuse = Unknown
    /\ e.Abuse_source = Empty

(***************************************************************************)
(* C4: the record EnrichIP returns has every one of abuse, prefix, asn,    *)
(* holder, city and country non-empty.  Stated as claimed; the code copies *)
(* an empty prefix of a successful GetNetworkInfo answer into the record.  *)
(***************************************************************************)
C4_EveryFieldPopulated ==
    pc = "ret" =>
        /\ e.Abuse # Empty
        /\ e.Prefix # Empty
        /\ e.Asn # Empty
        /\ e.Holder # Empty
        /\ e.City # Empty
        /\ e.Country # Empty

(***************************************************************************)
(* C5: in a call whose network resolution ends with asn = "unknown",       *)
(* GetASOverview is called zero times and holder = "unknown"; when         *)
(* GetASOverview is called and fails, holder = "unknown".                  *)
(***************************************************************************)
C5_HolderShortCircuit ==
    /\ pc \in {"idle", "abuse", "net", "holder"} /\ ~Returned =>
        CallCount("GetASOverview") = 0
    /\ pc = "holder" /\ (world.net.err \/ Len(world.net.val.ASNs) = 0) =>
        e.Asn = Unknown
    /\ (pc \in {"geo", "ret"} \/ Returned) =>
        /\ e.Asn = Unknown =>
            (CallCount("GetASOverview") = 0 /\ e.Holder = Unknown)
        /\ \A i \in DOMAIN calls :
            (calls[i].fn = "GetASOverview" /\ calls[i].err) => e.Holder = Unknown

C5_Witness ==
    /\ pc = "ret"
    /\ e.Asn = Unknown
    /\ e.Prefix \notin {Unknown, Empty}
    /\ CallCount("GetNetworkInfo") = 1
    /\ CallCount("GetASOverview") = 0
    /\ e.Holder = Unknown

(***************************************************************************)
(* C6: in a call whose network resolution ends with no usable prefix       *)
(* (GetNetworkInfo failed, or its answer has no prefix),                   *)
(* GetGeolocationData is called zero times and city = country = "unknown"; *)
(* GetGeolocationData is only called with a prefix the answer supplied.    *)
(* Stated as claimed; the code calls GetGeolocationData("") when the       *)
(* answer has no prefix.                                                   *)
(***************************************************************************)
C6_GeolocationShortCircuit ==
    pc = "ret" =>
        /\ e.Prefix \in {Unknown, Empty} =>
            /\ CallCount("GetGeolocationData") = 0
            /\ e.City = Unknown
            /\ e.Country = Unknown
        /\ \A i \in DOMAIN calls :
            calls[i].fn = "GetGeolocationData" =>
                (calls[i].arg = e.Prefix /\ calls[i].arg \notin {Unknown, Empty})

(***************************************************************************)
(* C7: the output of whoisEnrichmentIP is exactly the set of lower-cased   *)
(* matches, each once, in strictly ascending byte order, for zero, one or  *)
(* many matches; it is therefore the same for every occurrence order of    *)
(* the matches and every map iteration order, and running it again on the  *)
(* same text does not change it.                                           *)
(***************************************************************************)
C7_NormalForm ==
    pc = "extracted" =>
        LET found == IF world.whois.err THEN <<>>
                     ELSE FindAllString(world.whois.val)
        IN  /\ Range(out) = LowerSet(found)
            /\ \A i \in 1..(Len(out) - 1) : StringLess(out[i], out[i + 1])

C7_WhoisExtractionNormalForm ==
    []C7_NormalForm /\ [][pc = "extracted" => out' = out]_vars

C7_Witness ==
    /\ pc = "extracted"
    /\ Len(FindAllString(world.whois.val)) = 3
    /\ Len(out) = 2
    /\ out[2] = ToLower(FindAllString(world.whois.val)[1])
    /\ out[1] # FindAllString(world.whois.val)[2]
    /\ out[1] = ToLower(FindAllString(world.whois.val)[2])

(***************************************************************************)
(* C8: the record echoes the input ip; after a successful GetNetworkInfo   *)
(* prefix is the answer's prefix and asn the first of its ASNs; after a    *)
(* successful GetASOverview holder is the answer's holder verbatim; after  *)
(* a successful GetGeolocationData city and country are those of the first *)
(* location of the first located resource, whatever follows, and           *)
(* "unknown" when there is no located resource or the first one has no     *)
(* location; the record keeps these values until it is returned.           *)
(***************************************************************************)
C8_AfterEachStep ==
    /\ pc \in {"abuse", "net", "holder", "geo", "ret"} => e.Ip = ipAddr
    /\ (pc = "holder" /\ ~world.net.err) =>
        /\ e.Prefix = world.net.val.Prefix
        /\ Len(world.net.val.ASNs) > 0 => e.Asn = world.net.val.ASNs[1]
    /\ (pc = "geo" /\ CallCount("GetASOverview") = 1 /\ ~world.as.err) =>
        e.Holder = world.as.val.Holder
    /\ (pc = "ret" /\ CallCount("GetGeolocationData") = 1 /\ ~world.geo.err) =>
        LET lr == world.geo.val.LocatedResources
        IN  IF Len(lr) = 0 \/ Len(lr[1].Locations) = 0
            THEN e.City = Unknown /\ e.Country = Unknown
            ELSE /\ e.City = lr[1].Locations[1].City
                 /\ e.Country = lr[1].Locations[1].Country

C8_FirstWinsFusion == []C8_AfterEachStep /\ [][RecordKept]_vars

C8_Witness ==
    /\ pc = "ret"
    /\ Len(calls) = 4
    /\ \A i \in DOMAIN calls : ~calls[i].err
    /\ e.Asn # Unknown
    /\ e.Holder \in HolderValues
    /\ Len(world.geo.val.LocatedResources) = 2
    /\ Len(world.geo.val.LocatedResources[1].Locations) = 2
    /\ e.City = world.geo.val.LocatedResources[1].Locations[1].City
    /\ e.City # world.geo.val.LocatedResources[1].Locations[2].City
    /\ Len(world.geo.val.LocatedResources[2].Locations) > 0
    /\ e.City # world.geo.val.LocatedResources[2].Locations[1].City

(***************************************************************************)
(* C9: within one call GetAbuseContacts and GetNetworkInfo are called      *)
(* exactly once and whois, GetASOverview and GetGeolocationData at most    *)
(* once, in the order abuse, whois, network-info, AS-overview,             *)
(* geolocation; GetASOverview is called with the asn and                   *)
(* GetGeolocationData with the prefix the call's network resolution        *)
(* produced; a call never gets stuck and returns after its four steps.     *)
(***************************************************************************)
CallRank(fn) ==
    CASE fn = "GetAbuseContacts" -> 1
      [] fn = "Whois" -> 2
      [] fn = "GetNetworkInfo" -> 3
      [] fn = "GetASOverview" -> 4
      [] fn = "GetGeolocationData" -> 5

C9_CallLog ==
    /\ \A i \in 1..(Len(calls) - 1) :
        CallRank(calls[i].fn) < CallRank(calls[i + 1].fn)
    /\ (pc \in {"net", "holder", "geo", "ret"} \/ Returned) =>
        CallCount("GetAbuseContacts") = 1
    /\ (pc \in {"holder", "geo", "ret"} \/ Returned) =>
        CallCount("GetNetworkInfo") = 1
    /\ pc \in {"abuse", "net", "holder", "geo", "ret"} =>
        \A i \in DOMAIN calls :
            /\ calls[i].fn \in {"GetAbuseContacts", "Whois", "GetNetworkInfo"} =>
                calls[i].arg = ipAddr
            /\ calls[i].fn = "GetASOverview" => calls[i].arg = e.Asn
            /\ calls[i].fn = "GetGeolocationData" => calls[i].arg = e.Prefix
    /\ pc = "abuse" => ENABLED AbuseStep
    /\ pc = "net" => ENABLED NetStep
    /\ pc = "holder" => ENABLED HolderStep
    /\ pc = "geo" => ENABLED GeoStep
    /\ pc = "ret" => ENABLED Return

C9_StepOrder ==
    \/ pc = "idle" /\ pc' = "abuse"
    \/ pc = "abuse" /\ pc' = "net"
    \/ pc = "net" /\ pc' = "holder"
    \/ pc = "holder" /\ pc' = "geo"
    \/ pc = "geo" /\ pc' = "ret"
    \/ pc = "ret" /\ pc' = "idle"

C9_OrderedOnceAndTotal == []C9_CallLog /\ [][C9_StepOrder]_vars

C9_Witness ==
    /\ Returned
    /\ Len(calls) = 5
    /\ calls[1].err = FALSE
    /\ calls[5].err = TRUE

(***************************************************************************)
(* C10: the record handed to the caller by an earlier call keeps that      *)
(* call's field values during and after every later call.  Stated as       *)
(* claimed; EnrichIP returns the address of e.EnrichInfo, which the next   *)
(* call overwrites.                                                        *)
(***************************************************************************)
C10_HandedRecordKept == [][handed => e' = e]_vars

====
